---- MODULE Spec2Model ----
(***************************************************************************)
(* Room-mapping lookup service: the single-hotel and the batch resolution  *)
(* handlers of internal/handler (the pipelined revision), the key          *)
(* convention with its "#" alternate, the field decoder, the name          *)
(* normaliser and the sorted assembly of the room list.                    *)
(*                                                                         *)
(* Strings are sequences of one-character strings, so that trimming,       *)
(* lower-casing, replacing and comparing are computed, not assumed.        *)
(***************************************************************************)
EXTENDS Integers, Sequences, FiniteSets, TLC

VARIABLES
    store,        \* the key-value store: store key -> RawFieldMap (external producer)
    pc,           \* position of the request being served
    request,      \* the caller's input: hotel_id parameter or hotel_ids array
    hotelIDs,     \* batch: identifiers after dedupStringsInPlace
    pipe,         \* batch: store keys queued on the pipeline, in order
    primaryCmds,  \* batch: outcome of each primary command after Exec
    fallbackCmds, \* batch: outcome of each fallback command after Exec
    execErr,      \* batch: error returned by pipe.Exec
    reads,        \* single: outcome of each HGetAll issued, in order
    execCalls,    \* batch: number of pipe.Exec calls of this request
    roundTrips,   \* batch: number of pipelined exchanges with the store
    response,     \* what the handler wrote: status and body
    ctxDone,      \* the store call during which the request's context ended, if any
    fnArg,        \* function specifications: the input drawn
    fnRes,        \* function specifications: what the code computed from it
    gzipPool,     \* writeJSONMaybeGzip: the writers lying in gzipPool
    encoders      \* writeJSONMaybeGzip: per request, its position and its writer

\* the variables of the request handlers
handlerVars == << store, pc, request, hotelIDs, pipe, primaryCmds, fallbackCmds,
                  execErr, reads, execCalls, roundTrips, response, ctxDone >>

\* the variables of the function specifications
fnVars == << fnArg, fnRes >>

\* the variables of the compressor pool
poolVars == << gzipPool, encoders >>

vars == << handlerVars, fnVars, poolVars >>

\* value of a variable the specification at hand does not use
Unused == "unused"

\* a function specification before and after the code ran on its input
NotApplied == [done |-> FALSE]
Applied(v) == [done |-> TRUE, val |-> v]

(***************************************************************************)
(* Bounds of the model.                                                    *)
(***************************************************************************)
\* longest pattern a batch array is built from (the array repeats it)
MaxPattern == 2
MaxFields == 2
MaxIDLen == 3
MaxNameLen == 3
MaxExcess == 2
MaxRequests == 2

(***************************************************************************)
(* Program constants.                                                      *)
(***************************************************************************)
MaxHotelIDs == 100
maxRoomsToProcess == 2000

StatusOK == 200
StatusBadRequest == 400
StatusInternalServerError == 500

(***************************************************************************)
(* Characters and strings.                                                 *)
(***************************************************************************)
EmptyStr == << >>

\* the vertical tab (0x0B), written as the character itself
VerticalTab == ""

\* byte value of the characters the model uses (Go compares strings bytewise)
CharCode(c) ==
    CASE c = "\t" -> 9
      [] c = VerticalTab -> 11
      [] c = " " -> 32
      [] c = "#" -> 35
      [] c = "(" -> 40
      [] c = ")" -> 41
      [] c = "," -> 44
      [] c = "-" -> 45
      [] c = "." -> 46
      [] c = "/" -> 47
      [] c = "A" -> 65
      [] c = "B" -> 66
      [] c = "H" -> 72
      [] c = "a" -> 97
      [] c = "b" -> 98
      [] c = "h" -> 104
      [] OTHER -> 255

\* unicode.IsSpace, which strings.TrimSpace trims by
IsSpace(c) == c \in {" ", "\t", VerticalTab}

\* the class \s of package regexp: [\t\n\f\r ], without the vertical tab
IsRegexSpace(c) == c \in {" ", "\t"}

RECURSIVE TrimLeft(_)
TrimLeft(s) ==
    IF s # EmptyStr /\ IsSpace(Head(s)) THEN TrimLeft(Tail(s)) ELSE s

RECURSIVE TrimRight(_)
TrimRight(s) ==
    IF s # EmptyStr /\ IsSpace(s[Len(s)])
    THEN TrimRight(SubSeq(s, 1, Len(s) - 1))
    ELSE s

\* strings.TrimSpace
TrimSpace(s) == TrimRight(TrimLeft(s))

LowerChar(c) ==
    CASE c = "A" -> "a"
      [] c = "B" -> "b"
      [] c = "H" -> "h"
      [] OTHER -> c

\* strings.ToLower
ToLower(s) == [i \in 1..Len(s) |-> LowerChar(s[i])]

\* s < t on Go strings
RECURSIVE StrLess(_, _)
StrLess(s, t) ==
    IF t = EmptyStr THEN FALSE
    ELSE IF s = EmptyStr THEN TRUE
    ELSE IF CharCode(Head(s)) # CharCode(Head(t))
         THEN CharCode(Head(s)) < CharCode(Head(t))
         ELSE StrLess(Tail(s), Tail(t))

(***************************************************************************)
(* normalizeRoomName.                                                      *)
(***************************************************************************)
IsPunct(c) == c \in {"-", ",", ".", "/", "(", ")"}

\* punctReplacer.Replace
PunctReplace(s) == [i \in 1..Len(s) |-> IF IsPunct(s[i]) THEN " " ELSE s[i]]

\* wsRe.ReplaceAllString(s, " "): every maximal run of whitespace becomes one space
RECURSIVE SkipRegexSpace(_)
SkipRegexSpace(s) ==
    IF s # EmptyStr /\ IsRegexSpace(Head(s)) THEN SkipRegexSpace(Tail(s)) ELSE s

RECURSIVE CollapseWS(_)
CollapseWS(s) ==
    IF s = EmptyStr THEN EmptyStr
    ELSE IF IsRegexSpace(Head(s))
         THEN << " " >> \o CollapseWS(SkipRegexSpace(s))
         ELSE << Head(s) >> \o CollapseWS(Tail(s))

\* normalizeRoomName without the closing strings.TrimSpace
normalizeRoomNameUntrimmedResult(name) ==
    CollapseWS(PunctReplace(ToLower(TrimSpace(name))))

\* normalizeRoomName without the lower-casing
normalizeRoomNameKeepsCase(name) ==
    TrimSpace(CollapseWS(PunctReplace(TrimSpace(name))))

normalizeRoomName(name) ==
    TrimSpace(CollapseWS(PunctReplace(ToLower(TrimSpace(name)))))

(***************************************************************************)
(* Key convention.                                                         *)
(***************************************************************************)
HasMarkerPrefix(id) == id # EmptyStr /\ Head(id) = "#"

\* a toggle that prepends the marker whether or not there is one
getAlternateHotelIDAlwaysAdds(id) == << "#" >> \o TrimSpace(id)

\* the toggle without its strings.TrimSpace
getAlternateHotelIDUntrimmed(id) ==
    IF HasMarkerPrefix(id) THEN Tail(id) ELSE << "#" >> \o id

getAlternateHotelID(id) ==
    LET t == TrimSpace(id)
    IN  IF HasMarkerPrefix(t) THEN Tail(t) ELSE << "#" >> \o t

\* fmt.Sprintf("room_map:{%s}", id)
RedisKey(id) == << "room_map:{" >> \o id \o << "}" >>

(***************************************************************************)
(* Stored field values and the decoder of parseRooms.                      *)
(* A blob is a JSON text, kept as the class of document it is:             *)
(*   notjson  not a JSON object            noid    object without "id"     *)
(*   num      "id" is the integer val      numstr  "id" is the string "val"*)
(*   str      "id" is a non-numeric string frac    "id" has a fraction     *)
(***************************************************************************)
Blob(k, v) == [kind |-> k, val |-> v]

\* json.Unmarshal([]byte(roomJSON), &rv): err, and rv.ID as a json.Number
Unmarshal(blob) ==
    CASE blob.kind = "notjson" -> [err |-> TRUE, ID |-> Blob("empty", 0)]
      [] blob.kind = "str" -> [err |-> TRUE, ID |-> Blob("empty", 0)]
      [] blob.kind = "noid" -> [err |-> FALSE, ID |-> Blob("empty", 0)]
      [] blob.kind = "num" -> [err |-> FALSE, ID |-> Blob("int", blob.val)]
      [] blob.kind = "numstr" -> [err |-> FALSE, ID |-> Blob("int", blob.val)]
      [] blob.kind = "frac" -> [err |-> FALSE, ID |-> Blob("frac", blob.val)]

\* rv.ID.Int64()
NumberInt64(n) ==
    IF n.kind = "int" THEN [err |-> FALSE, val |-> n.val]
    ELSE [err |-> TRUE, val |-> 0]

\* the field is skipped: Unmarshal failed, or Int64 failed, or the id is zero
FieldSkipped(blob) ==
    LET rv == Unmarshal(blob)
        id == NumberInt64(rv.ID)
    IN  rv.err \/ id.err \/ id.val = 0

FieldID(blob) == NumberInt64(Unmarshal(blob).ID).val

(***************************************************************************)
(* parseRooms.  hashData is a Go map; order is the order in which this     *)
(* range statement yields its keys.                                        *)
(***************************************************************************)
Room(n, i) == [Name |-> n, ID |-> i]

\* a loop that gives up at the first field it cannot use
RECURSIVE ParseLoopStopsOnBadField(_, _, _, _, _)
ParseLoopStopsOnBadField(hashData, order, i, rooms, count) ==
    IF i > Len(order) \/ count >= maxRoomsToProcess THEN rooms
    ELSE LET roomName == order[i]
             roomJSON == hashData[roomName]
         IN  IF FieldSkipped(roomJSON)
             THEN rooms
             ELSE ParseLoopStopsOnBadField(hashData, order, i + 1,
                            Append(rooms, Room(normalizeRoomName(roomName),
                                               FieldID(roomJSON))),
                            count + 1)

RECURSIVE ParseLoop(_, _, _, _, _)
ParseLoop(hashData, order, i, rooms, count) ==
    IF i > Len(order) \/ count >= maxRoomsToProcess THEN rooms
    ELSE LET roomName == order[i]
             roomJSON == hashData[roomName]
         IN  IF FieldSkipped(roomJSON)
             THEN ParseLoop(hashData, order, i + 1, rooms, count)
             ELSE ParseLoop(hashData, order, i + 1,
                            Append(rooms, Room(normalizeRoomName(roomName),
                                               FieldID(roomJSON))),
                            count + 1)

\* the comparison handed to sort.Slice
RoomLess(a, b) == StrLess(a.Name, b.Name)

\* insertion of r after every element that is not greater than it
RECURSIVE InsertRoom(_, _)
InsertRoom(sorted, r) ==
    IF sorted = << >> THEN << r >>
    ELSE IF RoomLess(r, Head(sorted))
         THEN << r >> \o sorted
         ELSE << Head(sorted) >> \o InsertRoom(Tail(sorted), r)

\* sort.Slice(rooms, less): for the short slices of the model, insertion sort
RECURSIVE SortRooms(_)
SortRooms(rooms) ==
    IF rooms = << >> THEN << >>
    ELSE InsertRoom(SortRooms(SubSeq(rooms, 1, Len(rooms) - 1)), rooms[Len(rooms)])

parseRooms(hashData, order) ==
    SortRooms(ParseLoop(hashData, order, 1, << >>, 0))

\* the orders in which a range over m can yield its keys
IterOrders(m) ==
    LET n == Cardinality(DOMAIN m)
    IN  { o \in [1..n -> DOMAIN m] : \A i, j \in 1..n : i # j => o[i] # o[j] }

(***************************************************************************)
(* The store.                                                              *)
(***************************************************************************)
EmptyMap == << >>

RoomUpper == << "A" >>
RoomLower == << "a" >>
RoomDash == << "A", "-", "B" >>
RoomPadded == << " ", "a", "\t", " ", "b", "." >>

\* the RawFieldMaps a hotel's key can hold
RawFieldMaps ==
    { EmptyMap,
      RoomUpper :> Blob("num", 1) @@ RoomLower :> Blob("num", 2),
      RoomPadded :> Blob("numstr", 3) @@ RoomUpper :> Blob("notjson", 0),
      RoomLower :> Blob("num", 0) @@ RoomDash :> Blob("num", 7) }

\* the identifiers whose key the producer may have populated
StoredIDs == { << "h" >>, << "#", "h" >> }

StoreKeys == { RedisKey(id) : id \in StoredIDs }

Stores == [StoreKeys -> RawFieldMaps]

\* errors of a store call: redis.Nil and any other (communication) error
StoreErrors == { "Nil", "Comm" }

Ok(data) == [err |-> "none", data |-> data]
Failed(e) == [err |-> e, data |-> EmptyMap]

\* redisClient.HGetAll(ctx, key): the map held at the key
\* (empty when the key is absent), or an error
HGetAll(key) ==
    { Ok(IF key \in DOMAIN store THEN store[key] ELSE EmptyMap) }
        \cup { Failed(e) : e \in StoreErrors }

(***************************************************************************)
(* Requests.                                                               *)
(***************************************************************************)
\* identifiers a caller sends: empty, plain, marked, padded, the bare marker
HotelIdents ==
    { EmptyStr, << "h" >>, << "#", "h" >>, << " ", "h" >>, << "#" >> }

Patterns == UNION { [1..k -> HotelIdents] : k \in 1..MaxPattern }

\* a batch body: whether it binds, and the hotel_ids array, which is the
\* pattern repeated up to length n
BatchBody(b, p, n) == [kind |-> "batch", bound |-> b, pattern |-> p, n |-> n]

\* the bodies of the model: no array, the empty array, the arrays of one
\* identifier, and the arrays of 100 and of 101 identifiers
BatchBodies ==
    { BatchBody(FALSE, << >>, 0), BatchBody(TRUE, << >>, 0) }
        \cup { BatchBody(TRUE, << id >>, 1) : id \in HotelIdents }
        \cup { BatchBody(TRUE, p, n) :
                 p \in Patterns, n \in { MaxHotelIDs, MaxHotelIDs + 1 } }

SingleRequest(id) == [kind |-> "single", bound |-> TRUE, pattern |-> << id >>, n |-> 1]

NoRequest == [kind |-> "none", bound |-> FALSE, pattern |-> << >>, n |-> 0]

\* request.HotelIDs
RequestHotelIDs(req) ==
    [i \in 1..req.n |-> req.pattern[((i - 1) % Len(req.pattern)) + 1]]

\* c.Param("hotel_id")
RequestHotelID(req) == req.pattern[1]

(***************************************************************************)
(* Responses.                                                              *)
(***************************************************************************)
NoResponse == [status |-> 0, kind |-> "none", rooms |-> << >>, hotels |-> << >>]

\* c.JSON(status, gin.H{"error": ...})
ErrorResponse(status) ==
    [status |-> status, kind |-> "error", rooms |-> << >>, hotels |-> << >>]

\* an empty room list answered as "not found", as earlier revisions did
RoomsResponseNotFound(rooms) ==
    IF rooms = << >>
    THEN [status |-> 404, kind |-> "error", rooms |-> << >>, hotels |-> << >>]
    ELSE [status |-> StatusOK, kind |-> "rooms", rooms |-> rooms, hotels |-> << >>]

\* writeJSONMaybeGzip(c, RoomMappingsResponse{Rooms: rooms})
RoomsResponse(rooms) ==
    [status |-> StatusOK, kind |-> "rooms", rooms |-> rooms, hotels |-> << >>]

\* writeJSONMaybeGzip(c, response) of a BatchRoomMappingsResponse
HotelsResponse(hotels) ==
    [status |-> StatusOK, kind |-> "hotels", rooms |-> << >>, hotels |-> hotels]

(***************************************************************************)
(* Batch helpers.                                                          *)
(***************************************************************************)
\* dedup that forgets to drop the empty string
DedupKeptWithEmpty(in) ==
    { i \in 1..Len(in) : \A j \in 1..(i - 1) : in[j] # in[i] }

\* the positions the loop of dedupStringsInPlace appends: not the empty
\* string, and not seen at an earlier position
DedupKept(in) ==
    { i \in 1..Len(in) : in[i] # EmptyStr /\ \A j \in 1..(i - 1) : in[j] # in[i] }

\* out, the kept elements in the order of their positions
dedupStringsInPlace(in) ==
    LET kept == DedupKept(in)
    IN  [r \in 1..Cardinality(kept) |->
            in[CHOOSE i \in kept : Cardinality({ j \in kept : j <= i }) = r]]

\* the cap tested one too high
BatchRejectedOffByOne(ids) == Len(ids) = 0 \/ Len(ids) > MaxHotelIDs + 1

\* the hard cap of GetRoomMappingsBatch
BatchRejected(ids) == Len(ids) = 0 \/ Len(ids) > MaxHotelIDs

\* the commands the loop queues on the pipeline: per identifier, the primary
\* key and then the fallback key
RECURSIVE EnqueueLoop(_, _, _)
EnqueueLoop(ids, i, queued) ==
    IF i > Len(ids) THEN queued
    ELSE EnqueueLoop(ids, i + 1,
                     queued \o << RedisKey(ids[i]),
                                  RedisKey(getAlternateHotelID(ids[i])) >>)

\* primary failed or empty
Unusable(res) == res.err # "none" \/ Cardinality(DOMAIN res.data) = 0

\* the response loop without its fallback branch
BatchWinnerNoFallback(primary, fallback) ==
    IF Unusable(primary)
    THEN [found |-> FALSE, data |-> EmptyMap]
    ELSE [found |-> TRUE, data |-> primary.data]

\* the map the response loop parses for one hotel, if any
BatchWinner(primary, fallback) ==
    IF Unusable(primary)
    THEN IF Unusable(fallback)
         THEN [found |-> FALSE, data |-> EmptyMap]
         ELSE [found |-> TRUE, data |-> fallback.data]
    ELSE [found |-> TRUE, data |-> primary.data]

\* the response loop leaving out a hotel whose two commands failed
RECURSIVE BuildHotelsSkipFailed(_, _, _, _, _, _)
BuildHotelsSkipFailed(keys, pcmds, fcmds, orders, i, hotels) ==
    IF i > Len(keys) THEN hotels
    ELSE LET w == BatchWinner(pcmds[i], fcmds[i])
             rooms == IF w.found THEN parseRooms(w.data, orders[i]) ELSE << >>
         IN  IF pcmds[i].err # "none" /\ fcmds[i].err # "none"
             THEN BuildHotelsSkipFailed(keys, pcmds, fcmds, orders, i + 1, hotels)
             ELSE BuildHotelsSkipFailed(keys, pcmds, fcmds, orders, i + 1,
                                        (keys[i] :> rooms) @@ hotels)

\* the response loop: orders[i] is the order in which the i-th hotel's map
\* is ranged over
RECURSIVE BuildHotels(_, _, _, _, _, _)
BuildHotels(keys, pcmds, fcmds, orders, i, hotels) ==
    IF i > Len(keys) THEN hotels
    ELSE LET w == BatchWinner(pcmds[i], fcmds[i])
             rooms == IF w.found THEN parseRooms(w.data, orders[i]) ELSE << >>
         IN  BuildHotels(keys, pcmds, fcmds, orders, i + 1,
                         (keys[i] :> rooms) @@ hotels)

\* the error of a queued command: the response loop tests it only against nil
CmdErrors == { "Comm" }

\* cmd.Result() of a queued HGetAll after Exec
CmdResult(key) ==
    { Ok(IF key \in DOMAIN store THEN store[key] ELSE EmptyMap) }
        \cup { Failed(e) : e \in CmdErrors }

\* the results the queued commands can hold after Exec, command by command
RECURSIVE CmdResults(_)
CmdResults(keys) ==
    IF keys = << >> THEN { << >> }
    ELSE { << r >> \o rest : r \in CmdResult(Head(keys)), rest \in CmdResults(Tail(keys)) }

\* the orders the response loop can range over the hotels' maps, hotel by hotel
RECURSIVE RangeOrders(_, _)
RangeOrders(pcmds, fcmds) ==
    IF pcmds = << >> THEN { << >> }
    ELSE { << o >> \o rest :
             o \in IterOrders(BatchWinner(Head(pcmds), Head(fcmds)).data),
             rest \in RangeOrders(Tail(pcmds), Tail(fcmds)) }

\* one exchange per queued command, as without a pipeline
ExecRoundTripsPerCommand(queued) == Len(queued)

\* exchanges with the store that one pipe.Exec makes: the queued commands go
\* out together, and an empty pipeline sends nothing
ExecRoundTrips(queued) == IF queued = << >> THEN 0 ELSE 1

\* errors pipe.Exec can return
ExecErrors(queued) ==
    IF queued = << >> THEN { "none" } ELSE { "none" } \cup CmdErrors

\* the results the queued commands hold when the context ended during
\* pipe.Exec: the replies read before that, and the error on every command
\* from the first one whose reply was not read
CmdResultsAborted(keys) ==
    { [i \in 1..Len(keys) |->
         IF i <= cut
         THEN Ok(IF keys[i] \in DOMAIN store THEN store[keys[i]] ELSE EmptyMap)
         ELSE Failed("Comm")] : cut \in 0..(Len(keys) - 1) }

\* what pipe.Exec(ctx) leaves behind: the commands' results and its own error
ExecOutcomes(keys, done) ==
    IF done = "no"
    THEN { [results |-> r, err |-> e] : r \in CmdResults(keys), e \in ExecErrors(keys) }
    ELSE { [results |-> r, err |-> "Comm"] : r \in CmdResultsAborted(keys) }

\* redisClient.HGetAll(ctx, key) under a context that may have ended
HGetAllCtx(key, done) ==
    IF done = "no" THEN HGetAll(key) ELSE { Failed("Comm") }

\* a handler that answers a failed Exec with a server error
BatchResponseFailsOnExecErr(e, hotels) ==
    IF e # "none" THEN ErrorResponse(StatusInternalServerError)
    ELSE HotelsResponse(hotels)

\* the batch handler after pipe.Exec: execErr is logged, and the response is
\* written from whatever the commands hold
BatchResponse(e, hotels) == HotelsResponse(hotels)

(***************************************************************************)
(* Single-hotel helpers (fetchRoomsForHotel).                              *)
(***************************************************************************)
\* a lookup that never settles for the primary map
PrimaryHitNever(res) == FALSE

\* err == nil && len(hashData) > 0
PrimaryHit(res) == res.err = "none" /\ Cardinality(DOMAIN res.data) > 0

\* the fallback error dropped
FallbackNeverFails(res) == FALSE

\* redis.Nil on the fallback read taken for "no data"
FallbackFailedExceptNil(res) == res.err # "none" /\ res.err # "Nil"

\* err != nil after the fallback read
FallbackFailed(res) == res.err # "none"

(***************************************************************************)
(* Initial state.                                                          *)
(***************************************************************************)
\* no request is being handled
HandlersAtRest ==
    /\ pc = "idle"
    /\ request = NoRequest
    /\ hotelIDs = << >>
    /\ pipe = << >>
    /\ primaryCmds = << >>
    /\ fallbackCmds = << >>
    /\ execErr = "none"
    /\ reads = << >>
    /\ execCalls = 0
    /\ roundTrips = 0
    /\ response = NoResponse
    /\ ctxDone = "no"

\* the function specifications and the compressor pool are not in use
OthersAtRest ==
    /\ fnArg = Unused
    /\ fnRes = NotApplied
    /\ gzipPool = {}
    /\ encoders = << >>

Init ==
    /\ store \in Stores
    /\ HandlersAtRest
    /\ OthersAtRest

(***************************************************************************)
(* GetRoomMappings with fetchRoomsForHotel, cut at its store calls.        *)
(***************************************************************************)
\* the handler up to the first HGetAll
GetRoomMappings ==
    /\ pc = "idle"
    /\ \E hotelID \in HotelIdents :
         /\ request' = SingleRequest(hotelID)
         /\ IF hotelID = EmptyStr
            THEN /\ response' = ErrorResponse(StatusBadRequest)
                 /\ pc' = "done"
            ELSE /\ response' = response
                 /\ pc' = "primary"
    /\ UNCHANGED << store, hotelIDs, pipe, primaryCmds, fallbackCmds, execErr,
                    reads, execCalls, roundTrips >>
    /\ UNCHANGED << ctxDone, fnVars, poolVars >>

\* the primary HGetAll returns
PrimaryRead ==
    /\ pc = "primary"
    /\ LET primaryKey == RedisKey(RequestHotelID(request))
       IN  \E res \in HGetAllCtx(primaryKey, ctxDone) :
             /\ reads' = Append(reads, [key |-> primaryKey, res |-> res])
             /\ IF PrimaryHit(res)
                THEN /\ \E order \in IterOrders(res.data) :
                          response' = RoomsResponse(parseRooms(res.data, order))
                     /\ pc' = "done"
                ELSE /\ response' = response
                     /\ pc' = "fallback"
    /\ UNCHANGED << store, request, hotelIDs, pipe, primaryCmds, fallbackCmds,
                    execErr, execCalls, roundTrips >>
    /\ UNCHANGED << ctxDone, fnVars, poolVars >>

\* the fallback HGetAll returns
FallbackRead ==
    /\ pc = "fallback"
    /\ LET fallbackKey == RedisKey(getAlternateHotelID(RequestHotelID(request)))
       IN  \E res \in HGetAllCtx(fallbackKey, ctxDone) :
             /\ reads' = Append(reads, [key |-> fallbackKey, res |-> res])
             /\ IF FallbackFailed(res)
                THEN response' = ErrorResponse(StatusInternalServerError)
                ELSE \E order \in IterOrders(res.data) :
                       response' = RoomsResponse(parseRooms(res.data, order))
             /\ pc' = "done"
    /\ UNCHANGED << store, request, hotelIDs, pipe, primaryCmds, fallbackCmds,
                    execErr, execCalls, roundTrips >>
    /\ UNCHANGED << ctxDone, fnVars, poolVars >>

(***************************************************************************)
(* GetRoomMappingsBatch, cut at pipe.Exec.                                 *)
(***************************************************************************)
\* binding, the hard cap, dedup, queueing and the call of pipe.Exec
GetRoomMappingsBatch ==
    /\ pc = "idle"
    /\ \E body \in BatchBodies :
         /\ request' = body
         /\ IF ~body.bound \/ BatchRejected(RequestHotelIDs(body))
            THEN /\ response' = ErrorResponse(StatusBadRequest)
                 /\ pc' = "done"
                 /\ UNCHANGED << hotelIDs, pipe, execCalls, roundTrips >>
            ELSE LET ids == dedupStringsInPlace(RequestHotelIDs(body))
                     queued == EnqueueLoop(ids, 1, << >>)
                 IN  /\ hotelIDs' = ids
                     /\ pipe' = queued
                     /\ execCalls' = execCalls + 1
                     /\ roundTrips' = roundTrips + ExecRoundTrips(queued)
                     /\ response' = response
                     /\ pc' = "exec"
    /\ UNCHANGED << store, primaryCmds, fallbackCmds, execErr, reads >>
    /\ UNCHANGED << ctxDone, fnVars, poolVars >>

\* pipe.Exec returns; the response is assembled and written
ExecReturns ==
    /\ pc = "exec"
    /\ \E out \in ExecOutcomes(pipe, ctxDone) :
         LET k == Len(hotelIDs)
             pcmds == [i \in 1..k |-> out.results[2 * i - 1]]
             fcmds == [i \in 1..k |-> out.results[2 * i]]
         IN  /\ primaryCmds' = pcmds
             /\ fallbackCmds' = fcmds
             /\ execErr' = out.err
             /\ \E orders \in RangeOrders(pcmds, fcmds) :
                  response' = BatchResponse(out.err,
                      BuildHotels(hotelIDs, pcmds, fcmds, orders, 1, << >>))
    /\ pc' = "done"
    /\ UNCHANGED << store, request, hotelIDs, pipe, reads, execCalls, roundTrips >>
    /\ UNCHANGED << ctxDone, fnVars, poolVars >>

(***************************************************************************)
(* The request's context ends (its deadline passes, or the caller goes     *)
(* away) while a store call is in flight.  pipe.Exec on an empty pipeline  *)
(* sends nothing and is never in flight.                                   *)
(***************************************************************************)
DeadlineExpires ==
    /\ ctxDone = "no"
    /\ pc \in { "primary", "fallback", "exec" }
    /\ pc = "exec" => pipe # << >>
    /\ ctxDone' = pc
    /\ UNCHANGED << store, pc, request, hotelIDs, pipe, primaryCmds, fallbackCmds,
                    execErr, reads, execCalls, roundTrips, response >>
    /\ UNCHANGED << fnVars, poolVars >>

(***************************************************************************)
(* The handler has returned; the next request is served from a clean slate.*)
(***************************************************************************)
Complete ==
    /\ pc = "done"
    /\ pc' = "idle"
    /\ request' = NoRequest
    /\ hotelIDs' = << >>
    /\ pipe' = << >>
    /\ primaryCmds' = << >>
    /\ fallbackCmds' = << >>
    /\ execErr' = "none"
    /\ reads' = << >>
    /\ execCalls' = 0
    /\ roundTrips' = 0
    /\ response' = NoResponse
    /\ ctxDone' = "no"
    /\ UNCHANGED << store, fnVars, poolVars >>

Next ==
    \/ GetRoomMappings
    \/ PrimaryRead
    \/ FallbackRead
    \/ GetRoomMappingsBatch
    \/ ExecReturns
    \/ DeadlineExpires
    \/ Complete

Spec == Init /\ [][Next]_vars

(***************************************************************************)
(* Vocabulary of the properties.                                           *)
(***************************************************************************)
Range(s) == { s[i] : i \in DOMAIN s }

\* the distinct non-empty identifiers of the caller's array
DistinctIDs(req) == { id \in Range(RequestHotelIDs(req)) : id # << >> }

\* a batch request that passes validation: a bound array of 1..100 identifiers
IsAcceptedBatch ==
    request.kind = "batch" /\ request.bound /\ request.n >= 1 /\ request.n <= 100

IsSingle == request.kind = "single" /\ RequestHotelID(request) # << >>

\* a sub-result that succeeded and is non-empty
Good(res) == res.err = "none" /\ DOMAIN res.data # {}

\* rooms is what parsing m yields under one of the orders m can be ranged in
IsParseOf(rooms, m) == \E o \in IterOrders(m) : rooms = parseRooms(m, o)

\* the store key of an identifier, and the identifier with its marker toggled,
\* written out for the identifiers of the model
KeyText(id) == << "room_map:{" >> \o id \o << "}" >>

Toggled(id) ==
    CASE id = << "h" >> -> << "#", "h" >>
      [] id = << "#", "h" >> -> << "h" >>
      [] id = << " ", "h" >> -> << "#", "h" >>
      [] id = << "#" >> -> << >>

\* the normal form of the raw room names of the model, written out
NormalForm(raw) ==
    CASE raw = << "A" >> -> << "a" >>
      [] raw = << "a" >> -> << "a" >>
      [] raw = << "A", "-", "B" >> -> << "a", " ", "b" >>
      [] raw = << " ", "a", "\t", " ", "b", "." >> -> << "a", " ", "b" >>

\* every room sequence the response carries
ReturnedRoomLists ==
    IF response.kind = "rooms" THEN { response.rooms }
    ELSE IF response.kind = "hotels" THEN Range(response.hotels)
    ELSE {}

(***************************************************************************)
(* C1.  Batch resolution: for every identifier of the deduplicated input   *)
(* the rooms come from the primary sub-result if it succeeded and is       *)
(* non-empty, otherwise from the alternate sub-result if it succeeded and  *)
(* is non-empty, otherwise the identifier's result is the empty sequence;  *)
(* also when pipe.Exec as a whole reports an error.                        *)
(***************************************************************************)
C1_WinningMap ==
    (IsAcceptedBatch /\ pc = "done") =>
        LET ids == DistinctIDs(request)
        IN  \A id \in ids :
            \E i \in 1..Len(hotelIDs) :
                /\ hotelIDs[i] = id
                /\ id \in DOMAIN response.hotels
                /\ LET p == primaryCmds[i]
                       f == fallbackCmds[i]
                       rooms == response.hotels[id]
                   IN  IF Good(p) THEN IsParseOf(rooms, p.data)
                       ELSE IF Good(f) THEN IsParseOf(rooms, f.data)
                       ELSE rooms = << >>

\* Exec reported an error, a primary command failed, and its hotel's rooms
\* were taken from the alternate sub-result
C1_Witness ==
    /\ IsAcceptedBatch /\ pc = "done" /\ execErr = "Comm"
    /\ \E i \in 1..Len(hotelIDs) :
         /\ primaryCmds[i].err = "Comm"
         /\ Good(fallbackCmds[i])
         /\ response.hotels[hotelIDs[i]] # << >>

(***************************************************************************)
(* C2.  A batch request whose array is empty or longer than 100 is         *)
(* rejected with a client error; nothing is queued or executed and no      *)
(* identifier of it is processed.                                          *)
(***************************************************************************)
C2_RejectedBeforeStore ==
    (request.kind = "batch" /\ (request.n = 0 \/ request.n > 100)) =>
        /\ pc = "done"
        /\ response.kind = "error" /\ response.status = 400
        /\ pipe = << >> /\ execCalls = 0 /\ roundTrips = 0
        /\ hotelIDs = << >> /\ primaryCmds = << >> /\ fallbackCmds = << >>

\* an array of 101 identifiers was rejected
C2_Witness ==
    /\ request.kind = "batch" /\ request.bound /\ request.n = 101
    /\ response.status = 400

(***************************************************************************)
(* C3.  As claimed: every accepted batch request performs exactly one      *)
(* pipelined round-trip, whatever its identifiers.                         *)
(***************************************************************************)
C3_Original_OneRoundTrip ==
    (IsAcceptedBatch /\ pc = "done") => roundTrips = 1

(***************************************************************************)
(* C3, amended.  Every accepted batch request calls Exec exactly once, on  *)
(* one pipeline that carries the primary and the alternate key of every    *)
(* surviving identifier and nothing else; that is exactly one round-trip   *)
(* when an identifier survives deduplication and none when all are empty   *)
(* strings; there is never a second one.                                   *)
(***************************************************************************)
C3_OneExec ==
    /\ execCalls <= 1 /\ roundTrips <= 1
    /\ IsAcceptedBatch =>
         LET ids == DistinctIDs(request)
         IN  /\ pc \in { "exec", "done" }
             /\ execCalls = 1
             /\ roundTrips = (IF ids = {} THEN 0 ELSE 1)
             /\ Len(pipe) = 2 * Cardinality(ids)
             /\ \A id \in ids :
                  \E i \in 1..Cardinality(ids) :
                      /\ pipe[2 * i - 1] = KeyText(id)
                      /\ pipe[2 * i] = KeyText(Toggled(id))

\* 100 identifiers, two of them distinct, were served by one round-trip
C3_Witness ==
    /\ IsAcceptedBatch /\ pc = "done" /\ request.n = 100
    /\ Cardinality(DistinctIDs(request)) = 2
    /\ roundTrips = 1 /\ Len(pipe) = 4

(***************************************************************************)
(* C4.  For every accepted batch request the keys of the returned result   *)
(* are exactly the distinct non-empty identifiers of the input, spelled as *)
(* supplied.                                                               *)
(***************************************************************************)
C4_ResultKeys ==
    (IsAcceptedBatch /\ pc = "done") =>
        /\ response.kind = "hotels"
        /\ DOMAIN response.hotels = DistinctIDs(request)

\* an array with an empty string and a padded identifier, repeated: the padded
\* identifier is a key, its trimmed form and its alternate are not
C4_Witness ==
    /\ IsAcceptedBatch /\ pc = "done" /\ request.n = 100
    /\ request.pattern = << << >>, << " ", "h" >> >>
    /\ DOMAIN response.hotels = { << " ", "h" >> }

(***************************************************************************)
(* C5.  An accepted batch request ends with a success response holding a   *)
(* room list for every distinct identifier, under every pattern of store   *)
(* failure; an identifier whose two commands failed has the empty list.    *)
(***************************************************************************)
C5_AlwaysSuccess ==
    (IsAcceptedBatch /\ pc = "done") =>
        /\ response.status = 200 /\ response.kind = "hotels"
        /\ LET ids == DistinctIDs(request) IN \A id \in ids :
             /\ id \in DOMAIN response.hotels
             /\ \A i \in 1..Len(hotelIDs) :
                  (hotelIDs[i] = id /\ primaryCmds[i].err # "none"
                                    /\ fallbackCmds[i].err # "none")
                      => response.hotels[id] = << >>

\* Exec failed and so did every command of two identifiers
C5_Witness ==
    /\ IsAcceptedBatch /\ pc = "done" /\ execErr = "Comm"
    /\ Len(hotelIDs) = 2
    /\ \A i \in 1..2 : primaryCmds[i].err = "Comm" /\ fallbackCmds[i].err = "Comm"
    /\ response.status = 200

(***************************************************************************)
(* Vocabulary of the single-hotel properties.                              *)
(***************************************************************************)
\* the request is over and issued its reads
SingleDone == IsSingle /\ pc = "done"

\* what the store holds at a key
StoredAt(key) == IF key \in DOMAIN store THEN store[key] ELSE << >>

\* the read of the primary key found no data: key absent, or an empty map
PrimaryAbsentOrEmpty(read) ==
    read.res.err = "Nil" \/ (read.res.err = "none" /\ DOMAIN read.res.data = {})

Ascending(rooms) ==
    \A i, j \in 1..Len(rooms) : i < j => ~StrLess(rooms[j].Name, rooms[i].Name)

(***************************************************************************)
(* C6.  As claimed: a store communication error on the read of the primary *)
(* key makes the single-hotel request end with a server-error response,    *)
(* whatever the alternate key holds.                                       *)
(***************************************************************************)
C6_Original_PrimaryErrorSurfaced ==
    (SingleDone /\ Len(reads) >= 1 /\ reads[1].res.err = "Comm") =>
        (response.kind = "error" /\ response.status = 500)

(***************************************************************************)
(* C6, amended.  A store communication error on the read of the primary    *)
(* key is not surfaced by itself: the alternate key is read next, and the  *)
(* request ends with a server-error response exactly when that read fails; *)
(* otherwise it succeeds with the rooms parsed from the alternate map.     *)
(***************************************************************************)
C6_PrimaryErrorFallsBack ==
    (SingleDone /\ Len(reads) >= 1 /\ reads[1].res.err = "Comm") =>
        /\ Len(reads) = 2
        /\ reads[1].key = KeyText(RequestHotelID(request))
        /\ reads[2].key = KeyText(Toggled(RequestHotelID(request)))
        /\ IF reads[2].res.err # "none"
           THEN response.kind = "error" /\ response.status = 500
           ELSE /\ response.kind = "rooms" /\ response.status = 200
                /\ IsParseOf(response.rooms, reads[2].res.data)

\* the primary read failed, the alternate key held rooms, and they were returned
C6_Witness ==
    /\ SingleDone /\ Len(reads) = 2
    /\ reads[1].res.err = "Comm" /\ Good(reads[2].res)
    /\ response.status = 200 /\ response.rooms # << >>

(***************************************************************************)
(* C7.  As claimed: when the primary key is absent or empty and the read   *)
(* of the alternate key fails, the request resolves to an empty room       *)
(* sequence with a success response.                                       *)
(***************************************************************************)
C7_Original_FallbackErrorDegrades ==
    (SingleDone /\ Len(reads) = 2 /\ PrimaryAbsentOrEmpty(reads[1])
                /\ reads[2].res.err # "none") =>
        (response.kind = "rooms" /\ response.status = 200 /\ response.rooms = << >>)

(***************************************************************************)
(* C7, amended.  When the primary key is absent or empty and the read of   *)
(* the alternate key fails with a store error, the request ends with a     *)
(* server-error response: the fallback error is propagated to the caller.  *)
(***************************************************************************)
C7_FallbackErrorPropagates ==
    (SingleDone /\ Len(reads) = 2 /\ PrimaryAbsentOrEmpty(reads[1])
                /\ reads[2].res.err # "none") =>
        (response.kind = "error" /\ response.status = 500)

\* the primary map was empty, the alternate read failed, the caller got 500
C7_Witness ==
    /\ SingleDone /\ Len(reads) = 2
    /\ reads[1].res.err = "none" /\ DOMAIN reads[1].res.data = {}
    /\ reads[2].res.err = "Comm"
    /\ response.status = 500

(***************************************************************************)
(* C8.  When neither the primary nor the alternate key holds data and no   *)
(* store read fails, the single-hotel result is an empty room sequence     *)
(* returned as a success.                                                  *)
(***************************************************************************)
C8_NoDataIsEmptySuccess ==
    (/\ SingleDone
     /\ StoredAt(KeyText(RequestHotelID(request))) = << >>
     /\ StoredAt(KeyText(Toggled(RequestHotelID(request)))) = << >>
     /\ \A i \in 1..Len(reads) : reads[i].res.err = "none") =>
        /\ response.kind = "rooms" /\ response.status = 200
        /\ response.rooms = << >>

\* both keys were read, both were empty, and the answer was the empty list
C8_Witness ==
    /\ SingleDone /\ Len(reads) = 2
    /\ \A i \in 1..2 : reads[i].res.err = "none" /\ DOMAIN reads[i].res.data = {}
    /\ response.status = 200 /\ response.kind = "rooms" /\ response.rooms = << >>

(***************************************************************************)
(* C9.  Every room record returned by single or batch resolution has an id *)
(* different from zero and a name equal to the normal form of the raw      *)
(* field name it came from, that field holding this id.                    *)
(***************************************************************************)
C9_RecordsWellFormed ==
    \A rooms \in ReturnedRoomLists :
        \A j \in 1..Len(rooms) :
            /\ rooms[j].ID # 0
            /\ \E key \in DOMAIN store :
                 \E raw \in DOMAIN store[key] :
                     /\ rooms[j].Name = NormalForm(raw)
                     /\ store[key][raw].kind \in { "num", "numstr" }
                     /\ store[key][raw].val = rooms[j].ID

\* a map with a zero id and a punctuated upper-case name gave one record
C9_Witness ==
    /\ SingleDone /\ Len(reads) >= 1
    /\ reads[Len(reads)].res.data = (RoomLower :> Blob("num", 0) @@ RoomDash :> Blob("num", 7))
    /\ response.rooms = << Room(<< "a", " ", "b" >>, 7) >>

(***************************************************************************)
(* C10.  As claimed: for a fixed RawFieldMap the room sequence is          *)
(* ascending by normalized name and is the same for every order in which   *)
(* the map yields its fields, also when raw names share a normal form.     *)
(***************************************************************************)
C10_Original_OrderIndependent ==
    (SingleDone /\ response.kind = "rooms" /\ Len(reads) >= 1) =>
        LET m == reads[Len(reads)].res.data
        IN  /\ Ascending(response.rooms)
            /\ \A o \in IterOrders(m) : parseRooms(m, o) = response.rooms

(***************************************************************************)
(* parseRooms on its own: a map of at most MaxFields fields whose values    *)
(* range over every class of blob, ranged over in any order.               *)
(***************************************************************************)
FieldNames == { RoomUpper, RoomLower, RoomDash, RoomPadded }

FieldBlobs ==
    { Blob("notjson", 0), Blob("noid", 0), Blob("str", 0), Blob("frac", 1),
      Blob("num", 0), Blob("num", 5), Blob("numstr", 6) }

FieldMaps ==
    UNION { [names -> FieldBlobs] :
              names \in { n \in SUBSET FieldNames : Cardinality(n) <= MaxFields } }

ParseInputs ==
    UNION { { [hashData |-> m, order |-> o] : o \in IterOrders(m) } : m \in FieldMaps }

InitParse ==
    /\ store = EmptyMap
    /\ HandlersAtRest
    /\ fnArg \in ParseInputs
    /\ fnRes = NotApplied
    /\ gzipPool = {}
    /\ encoders = << >>

\* rooms := parseRooms(hashData)
ApplyParseRooms ==
    /\ ~fnRes.done
    /\ fnRes' = Applied(parseRooms(fnArg.hashData, fnArg.order))
    /\ UNCHANGED << handlerVars, fnArg, poolVars >>

NextParse == ApplyParseRooms

SpecParse == InitParse /\ [][NextParse]_vars

\* the blob is a JSON object whose id is a non-zero integer
DecodesToNonZeroID(blob) == blob.kind \in { "num", "numstr" } /\ blob.val # 0

\* the record a usable field must give
RecordOf(m, raw) == Room(NormalForm(raw), m[raw].val)

(***************************************************************************)
(* C11.  Parsing a RawFieldMap yields exactly one record for each field    *)
(* whose blob decodes to a non-zero integer id, carrying the normal form   *)
(* of that field's name and that id, and no record for any other field     *)
(* (malformed blob, non-numeric, missing or zero id); a field that is      *)
(* dropped takes no sibling with it and the parse does not fail.           *)
(***************************************************************************)
C11_OneRecordPerUsableField ==
    fnRes.done =>
        LET m == fnArg.hashData
            rooms == fnRes.val
            usable == { raw \in DOMAIN m : DecodesToNonZeroID(m[raw]) }
        IN  /\ Len(rooms) = Cardinality(usable)
            /\ \A raw \in usable : \E j \in 1..Len(rooms) : rooms[j] = RecordOf(m, raw)
            /\ \A j \in 1..Len(rooms) :
                 Cardinality({ k \in 1..Len(rooms) : rooms[k] = rooms[j] })
                     = Cardinality({ raw \in usable : RecordOf(m, raw) = rooms[j] })

\* a malformed field was ranged over first, and its sibling still gave its record
C11_Witness ==
    /\ fnRes.done
    /\ fnArg.hashData = (RoomUpper :> Blob("notjson", 0) @@ RoomDash :> Blob("num", 5))
    /\ fnArg.order = << RoomUpper, RoomDash >>
    /\ fnRes.val = << Room(<< "a", " ", "b" >>, 5) >>

(***************************************************************************)
(* getAlternateHotelID on its own, applied to an identifier and then to    *)
(* its own result.                                                         *)
(***************************************************************************)
IDChars == { "#", " ", "\t", "h" }

IDStrings == UNION { [1..n -> IDChars] : n \in 0..MaxIDLen }

InitAlt ==
    /\ store = EmptyMap
    /\ HandlersAtRest
    /\ fnArg \in IDStrings
    /\ fnRes = NotApplied
    /\ gzipPool = {}
    /\ encoders = << >>

\* getAlternateHotelID(id)
ApplyAlternate ==
    /\ ~fnRes.done
    /\ fnRes' = Applied(<< getAlternateHotelID(fnArg) >>)
    /\ UNCHANGED << handlerVars, fnArg, poolVars >>

\* getAlternateHotelID of the identifier the first call returned
ApplyAlternateAgain ==
    /\ fnRes.done
    /\ Len(fnRes.val) = 1
    /\ fnRes' = Applied(Append(fnRes.val, getAlternateHotelID(fnRes.val[1])))
    /\ UNCHANGED << handlerVars, fnArg, poolVars >>

NextAlt == ApplyAlternate \/ ApplyAlternateAgain

SpecAlt == InitAlt /\ [][NextAlt]_vars

\* no whitespace at either end
IsTrimmed(id) == id = << >> \/ (~IsSpace(id[1]) /\ ~IsSpace(id[Len(id)]))

\* the function was applied twice to a trimmed identifier
ToggledTwice == fnRes.done /\ Len(fnRes.val) = 2 /\ IsTrimmed(fnArg)

\* a leading marker, if any, is followed by nothing, or by a character that
\* is neither a marker nor whitespace
SingleMarker(id) ==
    (Len(id) >= 2 /\ id[1] = "#") => (id[2] # "#" /\ ~IsSpace(id[2]))

(***************************************************************************)
(* C12.  As claimed: for every trimmed identifier other than the bare      *)
(* marker "#", the alternate of the alternate is the identifier itself,    *)
(* also when it starts with several markers or has whitespace right after  *)
(* the marker.                                                             *)
(***************************************************************************)
C12_Original_Involution ==
    (ToggledTwice /\ fnArg # << "#" >>) => fnRes.val[2] = fnArg

(***************************************************************************)
(* C12, amended.  For a trimmed identifier the alternate of the alternate  *)
(* is the identifier itself exactly when a leading marker, if there is     *)
(* one, is followed by nothing or by a character that is neither a second  *)
(* marker nor whitespace; this covers the bare marker and every            *)
(* identifier without marker.                                              *)
(***************************************************************************)
C12_InvolutionOnSingleMarker ==
    ToggledTwice => (fnRes.val[2] = fnArg <=> SingleMarker(fnArg))

\* a marked identifier lost its marker and got it back
C12_Witness ==
    /\ ToggledTwice
    /\ fnArg = << "#", "h" >>
    /\ fnRes.val = << << "h" >>, << "#", "h" >> >>

(***************************************************************************)
(* normalizeRoomName on its own, applied to a name and then to its own     *)
(* result.                                                                 *)
(***************************************************************************)
NameChars == { "A", "b", " ", "\t", VerticalTab, "-", ".", "(" }

NameStrings == UNION { [1..n -> NameChars] : n \in 0..MaxNameLen }

InitNorm ==
    /\ store = EmptyMap
    /\ HandlersAtRest
    /\ fnArg \in NameStrings
    /\ fnRes = NotApplied
    /\ gzipPool = {}
    /\ encoders = << >>

\* normalizeRoomName(roomName)
ApplyNormalize ==
    /\ ~fnRes.done
    /\ fnRes' = Applied(<< normalizeRoomName(fnArg) >>)
    /\ UNCHANGED << handlerVars, fnArg, poolVars >>

\* normalizeRoomName of the name the first call returned
ApplyNormalizeAgain ==
    /\ fnRes.done
    /\ Len(fnRes.val) = 1
    /\ fnRes' = Applied(Append(fnRes.val, normalizeRoomName(fnRes.val[1])))
    /\ UNCHANGED << handlerVars, fnArg, poolVars >>

NextNorm == ApplyNormalize \/ ApplyNormalizeAgain

SpecNorm == InitNorm /\ [][NextNorm]_vars

(***************************************************************************)
(* C13.  normalize is idempotent: for every string over letters,           *)
(* whitespace and the punctuation characters - , . / ( ), normalizing the  *)
(* normalized string gives the normalized string again.                    *)
(***************************************************************************)
C13_Idempotent ==
    (fnRes.done /\ Len(fnRes.val) = 2) => fnRes.val[2] = fnRes.val[1]

\* a name with upper case and punctuation was changed once and not again
C13_Witness ==
    /\ fnRes.done
    /\ fnArg = << "A", "-", "b" >>
    /\ fnRes.val = << << "a", " ", "b" >>, << "a", " ", "b" >> >>

(***************************************************************************)
(* Deadline expiry and cancellation.                                       *)
(***************************************************************************)
\* the request ended after its context had ended during a store call
EndedAfterExpiry == pc = "done" /\ ctxDone # "no"

\* the rooms the response gives for the i-th surviving identifier
HotelRooms(i) == response.hotels[hotelIDs[i]]

(***************************************************************************)
C15_PrimaryThenAlternate ==
    request.kind = "single" =>
        LET id == RequestHotelID(request)
        IN  /\ Len(reads) <= 2
            /\ Len(reads) >= 1 => reads[1].key = KeyText(id)
            /\ Len(reads) = 2 =>
                  /\ reads[2].key = KeyText(Toggled(id))
                  /\ ~Good(reads[1].res)
            /\ (Len(reads) >= 1 /\ Good(reads[1].res)) =>
                  /\ Len(reads) = 1
                  /\ pc = "done"
                  /\ response.kind = "rooms"
                  /\ IsParseOf(response.rooms, reads[1].res.data)

\* the primary key of a marked identifier held rooms: one read, no second
C15_Witness ==
    /\ SingleDone
    /\ RequestHotelID(request) = << "#", "h" >>
    /\ Len(reads) = 1
    /\ reads[1].key = << "room_map:{", "#", "h", "}" >>
    /\ Good(reads[1].res)
    /\ response.rooms # << >>

(***************************************************************************)
(* parseRooms on maps around the ceiling, one iteration of its range loop  *)
(* per step, for the two hotels of a batch one after the other (the        *)
(* response loop).  A map is given by its number of fields and by the      *)
(* blobs the range yields, a pattern repeated; of the rooms slice the      *)
(* model keeps the length.                                                 *)
(***************************************************************************)
GoodBlob == Blob("num", 5)
BadBlob == Blob("notjson", 0)
ZeroBlob == Blob("num", 0)

BlobPatterns ==
    { << GoodBlob >>, << BadBlob >>, << BadBlob, GoodBlob >>, << GoodBlob, ZeroBlob >> }

PatternMap(n, p) == [n |-> n, pattern |-> p]

\* maps with one field less than the ceiling up to MaxExcess fields more
HugeMaps ==
    { PatternMap(n, p) :
        n \in (maxRoomsToProcess - 1)..(maxRoomsToProcess + MaxExcess),
        p \in BlobPatterns }

SmallMaps == { PatternMap(n, << BadBlob, GoodBlob >>) : n \in { 0, 2 } }

\* the blob of the i-th field the range yields
FieldAt(m, i) == m.pattern[((i - 1) % Len(m.pattern)) + 1]

\* the locals of parseRooms for hotel h, and what the earlier hotels gave
LoopAt(h, i, decoded, count, appended, results) ==
    [h |-> h, i |-> i, decoded |-> decoded, count |-> count,
     appended |-> appended, results |-> results]

InitCeiling ==
    /\ store = EmptyMap
    /\ HandlersAtRest
    /\ fnArg \in { << huge, small >> : huge \in HugeMaps, small \in SmallMaps }
    /\ fnRes = LoopAt(1, 0, 0, 0, 0, << >>)
    /\ gzipPool = {}
    /\ encoders = << >>

\* the loop is in the body for the next field: the range is not exhausted
\* and the check of count did not break out of it
InLoopBody ==
    /\ fnRes.h <= Len(fnArg)
    /\ fnRes.i < fnArg[fnRes.h].n
    /\ fnRes.count < maxRoomsToProcess

\* one iteration that decodes a field and skips it (continue)
RangeSkipsField ==
    /\ InLoopBody
    /\ FieldSkipped(FieldAt(fnArg[fnRes.h], fnRes.i + 1))
    /\ fnRes' = [fnRes EXCEPT !.i = @ + 1, !.decoded = @ + 1]
    /\ UNCHANGED << handlerVars, fnArg, poolVars >>

\* one iteration that decodes a field and appends its record
RangeAppendsRoom ==
    /\ InLoopBody
    /\ ~FieldSkipped(FieldAt(fnArg[fnRes.h], fnRes.i + 1))
    /\ fnRes' = [fnRes EXCEPT !.i = @ + 1, !.decoded = @ + 1,
                              !.count = @ + 1, !.appended = @ + 1]
    /\ UNCHANGED << handlerVars, fnArg, poolVars >>

\* the loop ends (range exhausted, or break) and parseRooms returns; the
\* response loop goes on to the next hotel
ParseRoomsReturns ==
    /\ fnRes.h <= Len(fnArg)
    /\ ~InLoopBody
    /\ fnRes' = LoopAt(fnRes.h + 1, 0, 0, 0, 0,
                       Append(fnRes.results,
                              [decoded |-> fnRes.decoded, records |-> fnRes.appended]))
    /\ UNCHANGED << handlerVars, fnArg, poolVars >>

NextCeiling == RangeSkipsField \/ RangeAppendsRoom \/ ParseRoomsReturns

SpecCeiling == InitCeiling /\ [][NextCeiling]_vars

\* the number of usable fields of a map
UsableFields(m) ==
    Cardinality({ i \in 1..m.n : DecodesToNonZeroID(FieldAt(m, i)) })

(***************************************************************************)
(* C16.  As claimed: when a hotel's map has more fields than the ceiling   *)
(* (2000), parsing of that hotel stops once the ceiling number of fields   *)
(* has been processed, valid or malformed, so at most 2000 fields are      *)
(* decoded and at most 2000 records are returned; the other hotel of the   *)
(* batch is parsed in full.                                                *)
(***************************************************************************)
C16_Original_CeilingOnProcessedFields ==
    /\ fnRes.decoded <= 2000
    /\ fnRes.appended <= 2000
    /\ Len(fnRes.results) = 2 =>
          fnRes.results[2].records = UsableFields(fnArg[2])

(***************************************************************************)
(* writeJSONMaybeGzip under concurrent requests.  gzipPool is a sync.Pool  *)
(* of gzip writers: Get takes a writer out of the pool or makes a new one, *)
(* Put gives one back, and the runtime may drop pooled writers.  A request *)
(* is cut at its calls on the writer; the deferred calls run last-in       *)
(* first-out when the function returns.                                    *)
(***************************************************************************)
Requests == 1..MaxRequests

\* identities of the writers that can be alive at a time
Writers == 1..MaxRequests

NoWriter == 0

\* a request: where it is, the writer it holds, whether Encode succeeded,
\* the deferred calls still to run, the calls made on the writer it took
Encoder(p, w, ok, pending, calls) ==
    [pc |-> p, w |-> w, ok |-> ok, pending |-> pending, calls |-> calls]

IdleEncoder == Encoder("idle", NoWriter, TRUE, << >>, << >>)

\* the writers some request holds
Held == { encoders[r].w : r \in Requests } \ { NoWriter }

\* the writers gzipPool.Get() can return: a pooled one, or a new one
GetChoices == gzipPool \cup { w \in Writers : w \notin gzipPool \cup Held }

\* only a successful Encode leaves the deferred calls to run
DeferredOnSuccessOnly(pending, ok) == IF ok THEN pending ELSE << >>

\* the deferred calls that run when the function returns after Encode
Deferred(pending, ok) == pending

InitPool ==
    /\ store = EmptyMap
    /\ HandlersAtRest
    /\ fnArg = Unused
    /\ fnRes = NotApplied
    /\ gzipPool = {}
    /\ encoders = [r \in Requests |-> IdleEncoder]

\* the request does not accept gzip: the value is encoded to c.Writer
WritePlain(r) ==
    /\ encoders[r].pc = "idle"
    /\ \E ok \in BOOLEAN :
         encoders' = [encoders EXCEPT ![r] = Encoder("done", NoWriter, ok, << >>, << >>)]
    /\ UNCHANGED << handlerVars, fnVars, gzipPool >>

\* w := gzipPool.Get().(*gzip.Writer); defer gzipPool.Put(w)
PoolGet(r) ==
    /\ encoders[r].pc = "idle"
    /\ \E w \in GetChoices :
         /\ gzipPool' = gzipPool \ { w }
         /\ encoders' = [encoders EXCEPT ![r] =
                            Encoder("reset", w, TRUE, << "Put" >>, << >>)]
    /\ UNCHANGED << handlerVars, fnVars >>

\* w.Reset(c.Writer); defer w.Close()
WriterReset(r) ==
    /\ encoders[r].pc = "reset"
    /\ encoders' = [encoders EXCEPT ![r].pc = "encode",
                                    ![r].pending = Append(@, "Close"),
                                    ![r].calls = Append(@, "Reset")]
    /\ UNCHANGED << handlerVars, fnVars, gzipPool >>

\* _ = enc.Encode(v); return    (Encode or the write under it may fail)
Encode(r) ==
    /\ encoders[r].pc = "encode"
    /\ \E ok \in BOOLEAN :
         encoders' = [encoders EXCEPT ![r].pc = "return",
                                     ![r].ok = ok,
                                     ![r].pending = Deferred(@, ok),
                                     ![r].calls = Append(@, "Encode")]
    /\ UNCHANGED << handlerVars, fnVars, gzipPool >>

\* the deferred call registered last runs: w.Close(), then gzipPool.Put(w)
RunDeferred(r) ==
    /\ encoders[r].pc = "return"
    /\ encoders[r].pending # << >>
    /\ LET e == encoders[r]
           call == e.pending[Len(e.pending)]
           rest == SubSeq(e.pending, 1, Len(e.pending) - 1)
       IN  IF call = "Put"
           THEN /\ gzipPool' = gzipPool \cup { e.w }
                /\ encoders' = [encoders EXCEPT ![r].pending = rest,
                                                ![r].w = NoWriter,
                                                ![r].calls = Append(@, "Put")]
           ELSE /\ gzipPool' = gzipPool
                /\ encoders' = [encoders EXCEPT ![r].pending = rest,
                                                ![r].calls = Append(@, call)]
    /\ UNCHANGED << handlerVars, fnVars >>

\* writeJSONMaybeGzip has returned
WriteReturns(r) ==
    /\ encoders[r].pc = "return"
    /\ encoders[r].pending = << >>
    /\ encoders' = [encoders EXCEPT ![r].pc = "done"]
    /\ UNCHANGED << handlerVars, fnVars, gzipPool >>

\* the request is over; the next one is served
RequestCompletes(r) ==
    /\ encoders[r].pc = "done"
    /\ encoders' = [encoders EXCEPT ![r] = IdleEncoder]
    /\ UNCHANGED << handlerVars, fnVars, gzipPool >>

\* the runtime drops a pooled writer (sync.Pool is emptied by the collector)
PoolDrops ==
    /\ \E w \in gzipPool : gzipPool' = gzipPool \ { w }
    /\ UNCHANGED << handlerVars, fnVars, encoders >>

NextPool ==
    \/ \E r \in Requests : WritePlain(r)
    \/ \E r \in Requests : PoolGet(r)
    \/ \E r \in Requests : WriterReset(r)
    \/ \E r \in Requests : Encode(r)
    \/ \E r \in Requests : RunDeferred(r)
    \/ \E r \in Requests : WriteReturns(r)
    \/ \E r \in Requests : RequestCompletes(r)
    \/ PoolDrops

SpecPool == InitPool /\ [][NextPool]_vars

\* the request took a writer from the pool
TookWriter(r) == encoders[r].calls # << >>

(***************************************************************************)
(* C17.  Under any interleaving of concurrent requests that accept         *)
(* compression, a pooled compressor is held by at most one request at a    *)
(* time and is not in the pool while held, and every request that took one *)
(* has, when it completes, reset it, encoded with it, closed it once and   *)
(* then put it back once, keeping no hold on it, also when encoding or     *)
(* writing failed.                                                         *)
(***************************************************************************)
C17_ExclusiveAndReturned ==
    /\ \A r1, r2 \in Requests :
          (r1 # r2 /\ encoders[r1].w # NoWriter) => encoders[r1].w # encoders[r2].w
    /\ \A r \in Requests : encoders[r].w # NoWriter => encoders[r].w \notin gzipPool
    /\ \A r \in Requests :
          (encoders[r].pc = "done" /\ TookWriter(r)) =>
              /\ encoders[r].calls = << "Reset", "Encode", "Close", "Put" >>
              /\ encoders[r].w = NoWriter

\* one request completed after a failed Encode with its writer closed and
\* put back, while another request was holding a writer
C17_Witness ==
    \E r1, r2 \in Requests :
        /\ encoders[r1].pc = "done" /\ ~encoders[r1].ok
        /\ encoders[r1].calls = << "Reset", "Encode", "Close", "Put" >>
        /\ encoders[r2].w # NoWriter

(***************************************************************************)
(* An identifier and its alternate, resolved against one store: the        *)
(* identifier singly, its alternate singly, and the two as one batch,      *)
(* with every read succeeding.                                             *)
(***************************************************************************)
\* what a successful read of the key returns
ReadOk(st, key) == Ok(IF key \in DOMAIN st THEN st[key] ELSE EmptyMap)

\* fetchRoomsForHotel: the room sequences it can return
FetchRooms(st, hotelID) ==
    LET primary == ReadOk(st, RedisKey(hotelID))
        fallback == ReadOk(st, RedisKey(getAlternateHotelID(hotelID)))
        chosen == IF PrimaryHit(primary) THEN primary ELSE fallback
    IN  IF ~PrimaryHit(primary) /\ FallbackFailed(fallback) THEN {}
        ELSE { parseRooms(chosen.data, o) : o \in IterOrders(chosen.data) }

\* GetRoomMappings: the responses it can write
SingleResponses(st, hotelID) ==
    IF hotelID = EmptyStr THEN { ErrorResponse(StatusBadRequest) }
    ELSE { RoomsResponse(rooms) : rooms \in FetchRooms(st, hotelID) }

\* GetRoomMappingsBatch on a bound array: the responses it can write
BatchResponses(st, array) ==
    IF BatchRejected(array) THEN { ErrorResponse(StatusBadRequest) }
    ELSE LET ids == dedupStringsInPlace(array)
             queued == EnqueueLoop(ids, 1, << >>)
             pcmds == [i \in 1..Len(ids) |-> ReadOk(st, queued[2 * i - 1])]
             fcmds == [i \in 1..Len(ids) |-> ReadOk(st, queued[2 * i])]
         IN  { BatchResponse("none", BuildHotels(ids, pcmds, fcmds, orders, 1, << >>)) :
                 orders \in RangeOrders(pcmds, fcmds) }

\* the identifiers a caller can send as X: trimmed and non-empty
PairIdents == { id \in IDStrings : id # EmptyStr /\ id = TrimSpace(id) }

InitPair ==
    /\ store \in Stores
    /\ HandlersAtRest
    /\ fnArg \in PairIdents
    /\ fnRes = Applied(<< >>)
    /\ gzipPool = {}
    /\ encoders = << >>

\* GET /room-mappings/X
ResolveSingly ==
    /\ Len(fnRes.val) = 0
    /\ \E resp \in SingleResponses(store, fnArg) :
         fnRes' = Applied(Append(fnRes.val, resp))
    /\ UNCHANGED << handlerVars, fnArg, poolVars >>

\* GET /room-mappings/ with the alternate of X
ResolveAlternateSingly ==
    /\ Len(fnRes.val) = 1
    /\ \E resp \in SingleResponses(store, getAlternateHotelID(fnArg)) :
         fnRes' = Applied(Append(fnRes.val, resp))
    /\ UNCHANGED << handlerVars, fnArg, poolVars >>

\* POST /room-mappings/batch with X and its alternate
ResolveAsBatch ==
    /\ Len(fnRes.val) = 2
    /\ \E resp \in BatchResponses(store, << fnArg, getAlternateHotelID(fnArg) >>) :
         fnRes' = Applied(Append(fnRes.val, resp))
    /\ UNCHANGED << handlerVars, fnArg, poolVars >>

NextPair == ResolveSingly \/ ResolveAlternateSingly \/ ResolveAsBatch

SpecPair == InitPair /\ [][NextPair]_vars

\* the identifier, its alternate and the batch have been resolved
PairResolved == Len(fnRes.val) = 3

\* the key holds a non-empty map
HoldsRooms(key) == key \in DOMAIN store /\ DOMAIN store[key] # {}

\* at most one of the two keys of the identifier holds a non-empty map
AtMostOneHolds(id) ==
    ~(HoldsRooms(KeyText(id)) /\ HoldsRooms(KeyText(getAlternateHotelID(id))))

\* the keys a resolution of the identifier probes, in order
Probes(id) == << KeyText(id), KeyText(getAlternateHotelID(id)) >>

\* the same records, each as many times
SameRecords(a, b) ==
    \A room \in Range(a) \cup Range(b) :
        Cardinality({ i \in 1..Len(a) : a[i] = room })
            = Cardinality({ i \in 1..Len(b) : b[i] = room })

\* X and its alternate probe the same keys in opposite order and were
\* answered with the same records, singly and in the batch
SameEntity(X) ==
    LET alt == getAlternateHotelID(X)
        single == fnRes.val[1]
        singleAlt == fnRes.val[2]
        batch == fnRes.val[3]
    IN  /\ Probes(alt) = << Probes(X)[2], Probes(X)[1] >>
        /\ single.kind = "rooms" /\ singleAlt.kind = "rooms"
        /\ SameRecords(single.rooms, singleAlt.rooms)
        /\ batch.kind = "hotels"
        /\ { X, alt } \subseteq DOMAIN batch.hotels
        /\ SameRecords(batch.hotels[X], batch.hotels[alt])
        /\ SameRecords(batch.hotels[X], single.rooms)

(***************************************************************************)
(* C18.  As claimed: for every trimmed non-empty identifier X, X and its   *)
(* alternate probe the same two store keys in opposite order, so whenever  *)
(* at most one of the two keys holds a non-empty map and no read fails,    *)
(* resolving X and resolving its alternate, singly or as two entries of    *)
(* one batch, return the same room records.                                *)
(***************************************************************************)
C18_Original_SameEntity ==
    (PairResolved /\ AtMostOneHolds(fnArg)) => SameEntity(fnArg)

(***************************************************************************)
(* C18, amended.  The same holds for every trimmed identifier other than   *)
(* the bare marker in which a leading marker is not followed by a second   *)
(* marker or by whitespace; the records are the same ones, each as many    *)
(* times, and their order may differ where normalized names collide.       *)
(***************************************************************************)
C18_SameEntityOnSingleMarker ==
    (PairResolved /\ AtMostOneHolds(fnArg)
        /\ SingleMarker(fnArg) /\ fnArg # << "#" >>) => SameEntity(fnArg)

\* only the marked key holds rooms, and the unmarked identifier, the marked
\* one and both entries of the batch were answered with them
C18_Witness ==
    /\ PairResolved
    /\ fnArg = << "h" >>
    /\ ~HoldsRooms(KeyText(<< "h" >>)) /\ HoldsRooms(KeyText(<< "#", "h" >>))
    /\ fnRes.val[1].rooms # << >>
    /\ fnRes.val[2].rooms = fnRes.val[1].rooms
    /\ fnRes.val[3].hotels[<< "h" >>] # << >>

====
